---- MODULE Spec2Model ----
(***************************************************************************)
(* A model of glrs' vertex-input state (src/src/vertex.rs) and its         *)
(* indirect draw command buffer (src/src/commands.rs).                     *)
(*                                                                         *)
(* The host state is the VertexArray struct; the GPU state is the part of  *)
(* the native vertex array object that the calls made by vertex.rs write   *)
(* (attribute enable/format/binding, binding divisor, vertex and element   *)
(* buffer bindings).  Every method is one action: the whole body, GPU      *)
(* calls included.  Binding indices and attribute locations are 0-based as *)
(* in the code; TLA+ sequences are 1-based, hence the "+ 1" on indexing.   *)
(***************************************************************************)
EXTENDS Integers, Sequences, FiniteSets, TLC

\* ------------------------------------------------------------------------
\* Bounds of the model
\* ------------------------------------------------------------------------
MaxSlots == 2
\* number of enable_vertices calls explored

MaxCmds == 2
\* number of push calls explored on one command buffer

JointSlots == 1
\* number of enable_vertices calls explored next to a command buffer

MaxDim == 4
\* largest dimension of the VectorN types the registry is evaluated on

MaxNest == 2
\* deepest nesting of Unit<..> the registry is evaluated on

\* ------------------------------------------------------------------------
\* GL enumerants used by vertex.rs
\* ------------------------------------------------------------------------
GL_UNSIGNED_BYTE == 5121

GL_UNSIGNED_INT == 5125

GL_FLOAT == 5126

GL_FALSE == 0

\* ------------------------------------------------------------------------
\* Attribute type registry: trait VertexAttribute and its impls
\* ------------------------------------------------------------------------
\* Host attribute types are terms: a scalar, or a constructor applied to an
\* inner type (of = <<inner>>); d is the dimension of a VectorN.
U8 == [k |-> "u8", d |-> 0, of |-> <<>>]

U32 == [k |-> "u32", d |-> 0, of |-> <<>>]

F32 == [k |-> "f32", d |-> 0, of |-> <<>>]

VectorN(N, D) == [k |-> "VectorN", d |-> D, of |-> <<N>>]

Quaternion(N) == [k |-> "Quaternion", d |-> 0, of |-> <<N>>]

Unit(T) == [k |-> "Unit", d |-> 0, of |-> <<T>>]

\* a registry in which Unit<T> counts as one component
sizeUnitOpaque(T) ==
    CASE T.k \in {"u8", "u32", "f32"} -> 1
      [] T.k = "VectorN" -> T.d
      [] T.k = "Quaternion" -> 4
      [] T.k = "Unit" -> 1

RECURSIVE size(_)
size(T) ==
    CASE T.k \in {"u8", "u32", "f32"} -> 1
      [] T.k = "VectorN" -> T.d
      [] T.k = "Quaternion" -> 4
      [] T.k = "Unit" -> size(T.of[1])

RECURSIVE typ(_)
typ(T) ==
    CASE T.k = "u8" -> GL_UNSIGNED_BYTE
      [] T.k = "u32" -> GL_UNSIGNED_INT
      [] T.k = "f32" -> GL_FLOAT
      [] T.k \in {"VectorN", "Quaternion", "Unit"} -> typ(T.of[1])

\* fn glformat<T: VertexAttribute>(..) -> (GLint, GLenum)
glformat(T) == <<size(T), typ(T)>>

\* ------------------------------------------------------------------------
\* Record types implementing Vertex
\* ------------------------------------------------------------------------
\* A record type is given by the fields named in its implement_vertex!
\* invocation, in the order they are named, each with its host type and its
\* byte offset (what offset_of! returns), and by its byte size (size_of).
\* "Empty" is a hand-written `impl Vertex` whose format() is the empty vector.
Field(name, ty, offset) == [name |-> name, ty |-> ty, offset |-> offset]

VertexTypes ==
    {"Pos", "Dir", "PadPos", "Pos2", "PosU", "PosCol", "ColPos", "Empty",
     "Scalars", "Rot", "Nested"}

Layout(V) ==
    CASE V = "Pos"    -> [fields |-> <<Field("pos", VectorN(F32, 3), 0)>>, bytes |-> 12]
      [] V = "Dir"    -> [fields |-> <<Field("dir", Unit(VectorN(F32, 3)), 0)>>, bytes |-> 12]
      [] V = "PadPos" -> [fields |-> <<Field("pos", VectorN(F32, 3), 4)>>, bytes |-> 16]
      [] V = "Pos2"   -> [fields |-> <<Field("pos", VectorN(F32, 2), 0)>>, bytes |-> 8]
      [] V = "PosU"   -> [fields |-> <<Field("pos", VectorN(U32, 3), 0)>>, bytes |-> 12]
      [] V = "PosCol" -> [fields |-> <<Field("pos", VectorN(F32, 3), 0),
                                       Field("col", VectorN(U8, 4), 12)>>, bytes |-> 16]
      [] V = "ColPos" -> [fields |-> <<Field("col", VectorN(U8, 4), 12),
                                       Field("pos", VectorN(F32, 3), 0)>>, bytes |-> 16]
      [] V = "Empty"  -> [fields |-> <<>>, bytes |-> 0]
      [] V = "Scalars" -> [fields |-> <<Field("a", U8, 0), Field("b", U32, 4),
                                        Field("c", F32, 8)>>, bytes |-> 12]
      [] V = "Rot"    -> [fields |-> <<Field("q", Quaternion(F32), 0),
                                       Field("n", Unit(Quaternion(F32)), 16)>>, bytes |-> 32]
      [] V = "Nested" -> [fields |-> <<Field("d", Unit(Unit(VectorN(U32, 2))), 0)>>,
                          bytes |-> 8]

\* struct VertexAttributeFormat { offset, size, typ }
VertexAttributeFormat(offset, sz, ty) == [offset |-> offset, size |-> sz, typ |-> ty]

\* a descriptor built back to front
formatReversed(V) ==
    LET n == Len(Layout(V).fields)
    IN  [i \in 1..n |->
            LET f == Layout(V).fields[n + 1 - i]
                st == glformat(f.ty)
            IN  VertexAttributeFormat(f.offset, st[1], st[2])]

\* implement_vertex!: one VertexAttributeFormat per named field, in order
format(V) ==
    [i \in 1..Len(Layout(V).fields) |->
        LET f == Layout(V).fields[i]
            st == glformat(f.ty)
        IN  VertexAttributeFormat(f.offset, st[1], st[2])]

size_of(V) == Layout(V).bytes

\* a comparison that forgets the offset field
AttrEqNoOffset(a, b) == a.size = b.size /\ a.typ = b.typ

\* #[derive(PartialEq)] on VertexAttributeFormat: field by field
AttrEq(a, b) == a.offset = b.offset /\ a.size = b.size /\ a.typ = b.typ

\* a comparison of the common prefix only (lengths not compared)
VecEqPrefix(a, b) ==
    \A i \in 1..(IF Len(a) < Len(b) THEN Len(a) ELSE Len(b)) : AttrEq(a[i], b[i])

\* PartialEq on Vec<VertexAttributeFormat>: same length, equal element-wise
VecEq(a, b) == Len(a) = Len(b) /\ \A i \in 1..Len(a) : AttrEq(a[i], b[i])

\* ------------------------------------------------------------------------
\* Collaborators: buffer allocators and the values drawn for the calls
\* ------------------------------------------------------------------------
\* Option<Rc<DynamicBuffer<[u8]>>>: a buffer is identified by its GL name
None == [some |-> FALSE, buf |-> 0]

Some(b) == [some |-> TRUE, buf |-> b]

\* Allocator<V>: a typed allocator over one shared buffer
VertexAllocators ==
    { [buf |-> 1, v |-> "Pos"], [buf |-> 2, v |-> "Dir"], [buf |-> 3, v |-> "PadPos"],
      [buf |-> 4, v |-> "Pos2"], [buf |-> 5, v |-> "PosU"], [buf |-> 6, v |-> "PosCol"],
      [buf |-> 7, v |-> "ColPos"], [buf |-> 8, v |-> "Empty"] }

\* Allocator<u16>
ElementAllocators == { [buf |-> 9], [buf |-> 10] }

Buffers == {a.buf : a \in VertexAllocators} \cup {a.buf : a \in ElementAllocators}

\* record types handed to enable_vertices, and the divisors; buffers of every
\* record type are offered to the slots these create
EnableTypes == {"Pos", "PosCol", "Empty"}

Divisors == {0, 1}

\* binding indices handed to vertex_buffer: every slot and one past MaxSlots
Bindings == 0..MaxSlots

\* names CreateVertexArrays may return
VaoNames == {1}

\* ------------------------------------------------------------------------
\* State
\* ------------------------------------------------------------------------
VARIABLES
    status,          \* "live", "unwinding" (a panic is propagating), "dropped"
    handle,          \* VertexArray.handle
    formats,         \* VertexArray.formats
    next_attrib,     \* VertexArray.next_attrib
    element_buffer,  \* VertexArray.element_buffer
    vertex_buffers,  \* VertexArray.vertex_buffers
    strong,          \* Rc strong count of every buffer
    gl_attribs,      \* GPU: attribute location -> attribute state
    gl_bindings,     \* GPU: binding index -> divisor and bound vertex buffer
    gl_element,      \* GPU: element buffer bound to the vertex array object
    gl_deleted,      \* GPU: number of DeleteVertexArrays calls, per name
    gl_log,          \* the GPU calls issued by the last operation, in order
    lastOp,          \* the last operation, its arguments and its outcome
    enabled,         \* history: one entry per enable_vertices call
    cb,              \* the CommandBuffer, when one exists
    pushed           \* history: the arguments of every push on cb

vaoVars == <<status, handle, formats, next_attrib, element_buffer, vertex_buffers>>

glVars == <<gl_attribs, gl_bindings, gl_element, gl_deleted>>

cbVars == <<cb, pushed>>

vars == <<status, handle, formats, next_attrib, element_buffer, vertex_buffers, strong,
          gl_attribs, gl_bindings, gl_element, gl_deleted, gl_log, lastOp, enabled,
          cb, pushed>>

\* ------------------------------------------------------------------------
\* The GPU calls made by vertex.rs, as functions on the GPU state
\* ------------------------------------------------------------------------
Call(f, a) == [f |-> f, a |-> a]

Upd(fn, key, val) == [x \in (DOMAIN fn) \cup {key} |-> IF x = key THEN val ELSE fn[x]]

\* state of an attribute location / a binding index no call has touched yet
DefaultAttrib(loc) ==
    [enabled |-> FALSE, size |-> 4, typ |-> GL_FLOAT, normalized |-> GL_FALSE,
     offset |-> 0, binding |-> loc, enables |-> 0, configs |-> 0]

DefaultBinding == [divisor |-> 0, buffer |-> 0, offset |-> 0, stride |-> 16, bound |-> FALSE]

AttribAt(attribs, loc) == IF loc \in DOMAIN attribs THEN attribs[loc] ELSE DefaultAttrib(loc)

BindingAt(bindings, i) == IF i \in DOMAIN bindings THEN bindings[i] ELSE DefaultBinding

EnableVertexArrayAttrib(attribs, loc) ==
    LET a == AttribAt(attribs, loc)
    IN  Upd(attribs, loc, [a EXCEPT !.enabled = TRUE, !.enables = @ + 1])

VertexArrayAttribFormat(attribs, loc, sz, ty, norm, offset) ==
    LET a == AttribAt(attribs, loc)
    IN  Upd(attribs, loc, [a EXCEPT !.size = sz, !.typ = ty, !.normalized = norm,
                                    !.offset = offset, !.configs = @ + 1])

VertexArrayAttribBinding(attribs, loc, bindingindex) ==
    Upd(attribs, loc, [AttribAt(attribs, loc) EXCEPT !.binding = bindingindex])

VertexArrayBindingDivisor(bindings, bindingindex, divisor) ==
    Upd(bindings, bindingindex, [BindingAt(bindings, bindingindex) EXCEPT !.divisor = divisor])

VertexArrayVertexBuffer(bindings, bindingindex, buffer, offset, stride) ==
    Upd(bindings, bindingindex,
        [BindingAt(bindings, bindingindex) EXCEPT !.buffer = buffer, !.offset = offset,
                                                  !.stride = stride, !.bound = TRUE])

\* ------------------------------------------------------------------------
\* VertexArray
\* ------------------------------------------------------------------------
NoOp == [op |-> "new", V |-> "-", divisor |-> 0, binding |-> 0, buf |-> 0,
         result |-> "ok", c |-> 0, prev |-> None]

\* VertexArray::new
Init ==
    /\ status = "live"
    /\ handle \in VaoNames
    /\ formats = <<>>
    /\ next_attrib = 0
    /\ element_buffer = None
    /\ vertex_buffers = <<>>
    /\ strong = [b \in Buffers |-> 1]
    /\ gl_attribs = <<>>
    /\ gl_bindings = <<>>
    /\ gl_element = 0
    /\ gl_deleted = [n \in VaoNames |-> 0]
    /\ gl_log = <<Call("CreateVertexArrays", <<1>>)>>
    /\ lastOp = NoOp
    /\ enabled = <<>>
    /\ cb = [exists |-> FALSE, variant |-> "-", vao |-> 0, cmds |-> <<>>]
    /\ pushed = <<>>

\* a registration that puts the new format in front of the others
PushFormatFront(fmts, fmt) == <<fmt>> \o fmts

\* self.formats.borrow_mut().push(format)
PushFormat(fmts, fmt) == Append(fmts, fmt)

\* an enable_vertices that forgets the vertex_buffers entry
PushSlotForgotten(vbs) == vbs

\* self.vertex_buffers.borrow_mut().push(None)
PushSlot(vbs) == Append(vbs, None)

\* an iteration that binds the attribute to the binding index of its own
\* location instead of the new slot's
EnableAttribBindSelf(a, h, fmts, divisor, st) ==
    LET na == st.next_attrib
        formats_len == Len(fmts)
        at1 == EnableVertexArrayAttrib(st.attribs, na)
        at2 == VertexArrayAttribFormat(at1, na, a.size, a.typ, GL_FALSE, a.offset)
        at3 == VertexArrayAttribBinding(at2, na, na)
        bd == VertexArrayBindingDivisor(st.bindings, formats_len, divisor)
        lg == st.log \o << Call("EnableVertexArrayAttrib", <<h, na>>),
                          Call("VertexArrayAttribFormat",
                               <<h, na, a.size, a.typ, GL_FALSE, a.offset>>),
                          Call("VertexArrayAttribBinding", <<h, na, na>>),
                          Call("VertexArrayBindingDivisor", <<h, formats_len, divisor>>) >>
    IN  [st EXCEPT !.attribs = at3, !.bindings = bd, !.log = lg]

\* the GPU calls of one iteration of the `for` loop of enable_vertices; st
\* carries what the loop writes: the counter, the GPU state, the calls issued
EnableAttrib(a, h, fmts, divisor, st) ==
    LET na == st.next_attrib
        formats_len == Len(fmts)
        at1 == EnableVertexArrayAttrib(st.attribs, na)
        at2 == VertexArrayAttribFormat(at1, na, a.size, a.typ, GL_FALSE, a.offset)
        at3 == VertexArrayAttribBinding(at2, na, formats_len)
        bd == VertexArrayBindingDivisor(st.bindings, formats_len, divisor)
        lg == st.log \o << Call("EnableVertexArrayAttrib", <<h, na>>),
                          Call("VertexArrayAttribFormat",
                               <<h, na, a.size, a.typ, GL_FALSE, a.offset>>),
                          Call("VertexArrayAttribBinding", <<h, na, formats_len>>),
                          Call("VertexArrayBindingDivisor", <<h, formats_len, divisor>>) >>
    IN  [st EXCEPT !.attribs = at3, !.bindings = bd, !.log = lg]

\* a counter advanced by the attribute's component count
AdvanceBySize(na, a) == na + a.size

\* a counter that is never advanced
AdvanceStuck(na, a) == na

\* self.next_attrib.set(next_attrib + 1), after the calls for attribute a
Advance(na, a) == na + 1

\* the `for` loop of enable_vertices, from the j-th attribute on
RECURSIVE EnableLoop(_, _, _, _, _, _)
EnableLoop(fmt, j, h, fmts, divisor, st) ==
    IF j > Len(fmt) THEN st
    ELSE LET st1 == EnableAttrib(fmt[j], h, fmts, divisor, st)
         IN  EnableLoop(fmt, j + 1, h, fmts, divisor,
                        [st1 EXCEPT !.next_attrib = Advance(st.next_attrib, fmt[j])])

\* VertexArray::enable_vertices::<V>(divisor)
enable_vertices(V, divisor) ==
    /\ status = "live"
    /\ Len(formats) < MaxSlots
    /\ LET fmt == format(V)
           st == EnableLoop(fmt, 1, handle, formats, divisor,
                            [next_attrib |-> next_attrib, attribs |-> gl_attribs,
                             bindings |-> gl_bindings, log |-> <<>>])
       IN  /\ next_attrib' = st.next_attrib
           /\ gl_attribs' = st.attribs
           /\ gl_bindings' = st.bindings
           /\ gl_log' = st.log
           /\ formats' = PushFormat(formats, fmt)
           /\ vertex_buffers' = PushSlot(vertex_buffers)
           /\ enabled' = Append(enabled, [size |-> Len(fmt), divisor |-> divisor, V |-> V])
           /\ lastOp' = [NoOp EXCEPT !.op = "enable_vertices", !.V = V,
                                     !.divisor = divisor, !.c = next_attrib]
    /\ UNCHANGED <<status, handle, element_buffer, strong, gl_element, gl_deleted, cb, pushed>>

\* Rc::clone / drop of an Option<Rc<..>>
RcClone(cnt, b) == [cnt EXCEPT ![b] = @ + 1]

RcDrop(cnt, o) == IF o.some THEN [cnt EXCEPT ![o.buf] = @ - 1] ELSE cnt

\* an element_buffer that stores the reference without binding it on the GPU
set_element_buffer_host_only(A) ==
    /\ status = "live"
    /\ gl_log' = <<>>
    /\ element_buffer' = Some(A.buf)
    /\ strong' = RcDrop(RcClone(strong, A.buf), element_buffer)
    /\ lastOp' = [NoOp EXCEPT !.op = "element_buffer", !.buf = A.buf, !.prev = element_buffer]
    /\ UNCHANGED <<status, handle, formats, next_attrib, vertex_buffers, glVars,
                   enabled, cb, pushed>>

\* an element_buffer that keeps a reference it already holds
set_element_buffer_once(A) ==
    /\ status = "live"
    /\ gl_element' = A.buf
    /\ gl_log' = <<Call("VertexArrayElementBuffer", <<handle, A.buf>>)>>
    /\ element_buffer' = IF element_buffer.some THEN element_buffer ELSE Some(A.buf)
    /\ strong' = IF element_buffer.some THEN strong ELSE RcClone(strong, A.buf)
    /\ lastOp' = [NoOp EXCEPT !.op = "element_buffer", !.buf = A.buf, !.prev = element_buffer]
    /\ UNCHANGED <<status, handle, formats, next_attrib, vertex_buffers, gl_attribs,
                   gl_bindings, gl_deleted, enabled, cb, pushed>>

\* VertexArray::element_buffer(&Allocator<u16>)
set_element_buffer(A) ==
    /\ status = "live"
    /\ gl_element' = A.buf
    /\ gl_log' = <<Call("VertexArrayElementBuffer", <<handle, A.buf>>)>>
    /\ element_buffer' = Some(A.buf)
    /\ strong' = RcDrop(RcClone(strong, A.buf), element_buffer)
    /\ lastOp' = [NoOp EXCEPT !.op = "element_buffer", !.buf = A.buf, !.prev = element_buffer]
    /\ UNCHANGED <<status, handle, formats, next_attrib, vertex_buffers, gl_attribs,
                   gl_bindings, gl_deleted, enabled, cb, pushed>>

\* the assert_eq! of vertex_buffer: V::format() is evaluated, then
\* self.formats.borrow()[binding] (which panics when binding is out of
\* range), then the two vectors are compared
vertex_buffer_check(V, binding, fmts) ==
    IF binding >= Len(fmts) THEN "index_out_of_bounds"
    ELSE IF VecEq(format(V), fmts[binding + 1]) THEN "ok"
    ELSE "assertion_failed"

\* a store that overwrites every slot
SlotAssignAll(vbs, binding, b) == [j \in 1..Len(vbs) |-> Some(b)]

\* a store that only fills an empty slot
SlotAssignIfEmpty(vbs, binding, b) ==
    IF vbs[binding + 1].some THEN vbs ELSE [vbs EXCEPT ![binding + 1] = Some(b)]

\* self.vertex_buffers.borrow_mut()[binding] = Some(..)
SlotAssign(vbs, binding, b) == [vbs EXCEPT ![binding + 1] = Some(b)]

\* the body of vertex_buffer, given the outcome r of its assert_eq!
vertex_buffer_run(A, binding, r) ==
    /\ status = "live"
    /\ LET stride == size_of(A.v)
           op == [NoOp EXCEPT !.op = "vertex_buffer", !.V = A.v, !.binding = binding,
                              !.buf = A.buf, !.result = r]
       IN  IF r # "ok"
           THEN /\ status' = "unwinding"
                /\ gl_log' = <<>>
                /\ lastOp' = op
                /\ UNCHANGED <<vertex_buffers, strong, gl_bindings>>
           ELSE /\ gl_bindings' = VertexArrayVertexBuffer(gl_bindings, binding, A.buf, 0, stride)
                /\ gl_log' = <<Call("VertexArrayVertexBuffer",
                                    <<handle, binding, A.buf, 0, stride>>)>>
                /\ IF binding >= Len(vertex_buffers)
                   THEN \* indexing self.vertex_buffers panics; the clone is dropped again
                        /\ status' = "unwinding"
                        /\ lastOp' = [op EXCEPT !.result = "index_out_of_bounds"]
                        /\ UNCHANGED <<vertex_buffers, strong>>
                   ELSE /\ vertex_buffers' = SlotAssign(vertex_buffers, binding, A.buf)
                        /\ strong' = RcDrop(RcClone(strong, A.buf), vertex_buffers[binding + 1])
                        /\ lastOp' = [op EXCEPT !.prev = vertex_buffers[binding + 1]]
                        /\ UNCHANGED status
    /\ UNCHANGED <<handle, formats, next_attrib, element_buffer, gl_attribs, gl_element,
                   gl_deleted, enabled, cb, pushed>>

\* a vertex_buffer that binds the buffer on the GPU before it checks the format
vertex_buffer_bind_first(A, binding) ==
    /\ status = "live"
    /\ LET r == vertex_buffer_check(A.v, binding, formats)
           stride == size_of(A.v)
           op == [NoOp EXCEPT !.op = "vertex_buffer", !.V = A.v, !.binding = binding,
                              !.buf = A.buf, !.result = r]
       IN  /\ gl_bindings' = VertexArrayVertexBuffer(gl_bindings, binding, A.buf, 0, stride)
           /\ gl_log' = <<Call("VertexArrayVertexBuffer",
                               <<handle, binding, A.buf, 0, stride>>)>>
           /\ IF r # "ok" \/ binding >= Len(vertex_buffers)
              THEN /\ status' = "unwinding"
                   /\ lastOp' = [op EXCEPT !.result =
                                     IF r # "ok" THEN r ELSE "index_out_of_bounds"]
                   /\ UNCHANGED <<vertex_buffers, strong>>
              ELSE /\ vertex_buffers' = SlotAssign(vertex_buffers, binding, A.buf)
                   /\ strong' = RcDrop(RcClone(strong, A.buf), vertex_buffers[binding + 1])
                   /\ lastOp' = [op EXCEPT !.prev = vertex_buffers[binding + 1]]
                   /\ UNCHANGED status
    /\ UNCHANGED <<handle, formats, next_attrib, element_buffer, gl_attribs, gl_element,
                   gl_deleted, enabled, cb, pushed>>

\* a vertex_buffer that returns silently when the slot does not exist
vertex_buffer_silent(A, binding) ==
    IF binding >= Len(formats)
    THEN /\ status = "live"
         /\ gl_log' = <<>>
         /\ lastOp' = [NoOp EXCEPT !.op = "vertex_buffer", !.V = A.v, !.binding = binding,
                                   !.buf = A.buf]
         /\ UNCHANGED <<vaoVars, strong, glVars, enabled, cb, pushed>>
    ELSE vertex_buffer_run(A, binding, vertex_buffer_check(A.v, binding, formats))

\* VertexArray::vertex_buffer::<V>(binding, &Allocator<V>)
vertex_buffer(A, binding) ==
    vertex_buffer_run(A, binding, vertex_buffer_check(A.v, binding, formats))

RECURSIVE RcDropAll(_, _)
RcDropAll(cnt, os) ==
    IF os = <<>> THEN cnt ELSE RcDropAll(RcDrop(cnt, Head(os)), Tail(os))

\* a drop that releases the buffers but never deletes the native object
DropWithoutDelete ==
    /\ status \in {"live", "unwinding"}
    /\ ~cb.exists
    /\ gl_log' = <<>>
    /\ strong' = RcDropAll(RcDrop(strong, element_buffer), vertex_buffers)
    /\ status' = "dropped"
    /\ lastOp' = [NoOp EXCEPT !.op = "drop", !.result = lastOp.result]
    /\ UNCHANGED <<handle, formats, next_attrib, element_buffer, vertex_buffers, glVars,
                   enabled, cb, pushed>>

\* impl Drop for VertexArray, followed by the drop of its fields.  It runs
\* when the owner's scope ends or when a panic unwinds through it; a live
\* CommandBuffer borrows the array, so it is dropped first.  The fields of
\* the dropped value are kept as they were at the drop.
Drop ==
    /\ status \in {"live", "unwinding"}
    /\ ~cb.exists
    /\ gl_deleted' = [gl_deleted EXCEPT ![handle] = @ + 1]
    /\ gl_log' = <<Call("DeleteVertexArrays", <<1, handle>>)>>
    /\ strong' = RcDropAll(RcDrop(strong, element_buffer), vertex_buffers)
    /\ status' = "dropped"
    /\ lastOp' = [NoOp EXCEPT !.op = "drop", !.result = lastOp.result]
    /\ UNCHANGED <<handle, formats, next_attrib, element_buffer, vertex_buffers, gl_attribs,
                   gl_bindings, gl_element, enabled, cb, pushed>>

\* ------------------------------------------------------------------------
\* CommandBuffer
\* ------------------------------------------------------------------------
\* u32 argument values, and the argument lists offered to the two push
\* methods: every combination of the values, and two longer-valued commands
ArgValues == {0, 1}

ElementsArgs ==
    (ArgValues \X ArgValues \X ArgValues \X ArgValues \X ArgValues)
        \cup { <<10, 1, 0, 0, 0>>, <<20, 2, 5, 3, 1>> }

ArraysArgs ==
    (ArgValues \X ArgValues \X ArgValues \X ArgValues)
        \cup { <<10, 1, 0, 0>>, <<20, 2, 5, 1>> }

\* #[repr(C)] struct DrawArraysIndirectCommand
DrawArraysIndirectCommand(count, instance_count, base_vertex, base_instance) ==
    [count |-> count, instance_count |-> instance_count, base_vertex |-> base_vertex,
     base_instance |-> base_instance]

\* #[repr(C)] struct DrawElementsIndirectCommand
DrawElementsIndirectCommand(count, instance_count, first_index, base_vertex, base_instance) ==
    [count |-> count, instance_count |-> instance_count, first_index |-> first_index,
     base_vertex |-> base_vertex, base_instance |-> base_instance]

\* a layout in which the last two fields of a record change places
WordsReordered(variant, c) ==
    IF variant = "elements"
    THEN <<c.count, c.instance_count, c.first_index, c.base_instance, c.base_vertex>>
    ELSE <<c.count, c.instance_count, c.base_instance, c.base_vertex>>

\* the u32 words of one record in memory: #[repr(C)] keeps declaration order
Words(variant, c) ==
    IF variant = "elements"
    THEN <<c.count, c.instance_count, c.first_index, c.base_vertex, c.base_instance>>
    ELSE <<c.count, c.instance_count, c.base_vertex, c.base_instance>>

\* CommandBufferAbstract::len
len == Len(cb.cmds)

\* CommandBufferAbstract::indirect: the block of records the pointer addresses
indirect == [i \in 1..Len(cb.cmds) |-> Words(cb.variant, cb.cmds[i])]

\* CommandBufferAbstract::vao
vao == cb.vao

NoCb == [exists |-> FALSE, variant |-> "-", vao |-> 0, cmds |-> <<>>]

\* a constructor that allocates a GPU buffer for the commands
cb_new_gpu(variant) ==
    /\ status = "live"
    /\ ~cb.exists
    /\ cb' = [exists |-> TRUE, variant |-> variant, vao |-> handle, cmds |-> <<>>]
    /\ pushed' = <<>>
    /\ gl_log' = <<Call("CreateBuffers", <<1>>)>>
    /\ lastOp' = [NoOp EXCEPT !.op = "cb_new"]
    /\ UNCHANGED <<vaoVars, strong, glVars, enabled>>

\* CommandBuffer::new(&VertexArray)
cb_new(variant) ==
    /\ status = "live"
    /\ ~cb.exists
    /\ cb' = [exists |-> TRUE, variant |-> variant, vao |-> handle, cmds |-> <<>>]
    /\ pushed' = <<>>
    /\ gl_log' = <<>>
    /\ lastOp' = [NoOp EXCEPT !.op = "cb_new"]
    /\ UNCHANGED <<vaoVars, strong, glVars, enabled>>

\* CommandBuffer<DrawElementsIndirectCommand>::push
push_elements(count, instance_count, first_index, base_vertex, base_instance) ==
    /\ status = "live"
    /\ cb.exists /\ cb.variant = "elements"
    /\ Len(cb.cmds) < MaxCmds
    /\ cb' = [cb EXCEPT !.cmds = Append(@, DrawElementsIndirectCommand(
                  count, instance_count, first_index, base_vertex, base_instance))]
    /\ pushed' = Append(pushed, <<count, instance_count, first_index, base_vertex, base_instance>>)
    /\ gl_log' = <<>>
    /\ lastOp' = [NoOp EXCEPT !.op = "push"]
    /\ UNCHANGED <<vaoVars, strong, glVars, enabled>>

\* CommandBuffer<DrawArraysIndirectCommand>::push
push_arrays(count, instance_count, base_vertex, base_instance) ==
    /\ status = "live"
    /\ cb.exists /\ cb.variant = "arrays"
    /\ Len(cb.cmds) < MaxCmds
    /\ cb' = [cb EXCEPT !.cmds = Append(@, DrawArraysIndirectCommand(
                  count, instance_count, base_vertex, base_instance))]
    /\ pushed' = Append(pushed, <<count, instance_count, base_vertex, base_instance>>)
    /\ gl_log' = <<>>
    /\ lastOp' = [NoOp EXCEPT !.op = "push"]
    /\ UNCHANGED <<vaoVars, strong, glVars, enabled>>

\* the CommandBuffer goes out of scope (it has no Drop impl of its own)
cb_drop ==
    /\ status \in {"live", "unwinding"}
    /\ cb.exists
    /\ cb' = NoCb
    /\ gl_log' = <<>>
    /\ lastOp' = [NoOp EXCEPT !.op = "cb_drop", !.result = lastOp.result]
    /\ UNCHANGED <<vaoVars, strong, glVars, enabled, pushed>>

\* ------------------------------------------------------------------------
\* Specifications
\* ------------------------------------------------------------------------
EnableVertices == \E V \in EnableTypes, d \in Divisors : enable_vertices(V, d)

SetElementBuffer == \E A \in ElementAllocators : set_element_buffer(A)

SetVertexBuffer == \E A \in VertexAllocators, b \in Bindings : vertex_buffer(A, b)

CbNew == \E v \in {"elements", "arrays"} : cb_new(v)

PushElements == \E a \in ElementsArgs : push_elements(a[1], a[2], a[3], a[4], a[5])

PushArrays == \E a \in ArraysArgs : push_arrays(a[1], a[2], a[3], a[4])

\* the vertex array object on its own
Next ==
    \/ EnableVertices
    \/ SetElementBuffer
    \/ SetVertexBuffer
    \/ Drop

Spec == Init /\ [][Next]_vars

\* a command buffer over a vertex array object
CmdNext ==
    \/ CbNew
    \/ PushElements
    \/ PushArrays
    \/ cb_drop
    \/ Drop

CmdSpec == Init /\ [][CmdNext]_vars

\* a command buffer used next to the calls on the array object it references
JointEnable == Len(formats) < JointSlots /\ EnableVertices

PushSampleElements == push_elements(20, 2, 5, 3, 1)

PushSampleArrays == push_arrays(20, 2, 5, 1)

JointNext ==
    \/ JointEnable
    \/ SetElementBuffer
    \/ SetVertexBuffer
    \/ CbNew
    \/ PushSampleElements
    \/ PushSampleArrays
    \/ cb_drop
    \/ Drop

JointSpec == Init /\ [][JointNext]_vars

\* a panic that has started unwinding runs the destructors of the values it
\* unwinds through: the drop of the array object is not postponed forever
Unwind == status = "unwinding" /\ Drop

FairSpec == Spec /\ WF_vars(Unwind)

\* registration of record types of every shape: what Vertex::format() and
\* the attribute registry produce is what enable_vertices stores and sends
RegisterAny == \E V \in VertexTypes, d \in Divisors : enable_vertices(V, d)

FormatNext ==
    \/ RegisterAny
    \/ Drop

FormatSpec == Init /\ [][FormatNext]_vars

\* ------------------------------------------------------------------------
\* Properties
\* ------------------------------------------------------------------------
\* the record type of the buffer a slot holds
TypeOfBuffer(b) == (CHOOSE A \in VertexAllocators : A.buf = b).v

LastVertexBuffer == lastOp.op = "vertex_buffer"

\* C1: a set_vertex_buffer call on an existing slot succeeds (returns, with the
\* buffer stored in the slot) exactly when the format of the buffer's record
\* type is the slot's registered format, and panics otherwise.
C1_SucceedsIffFormatEqual ==
    (LastVertexBuffer /\ lastOp.binding < Len(formats)) =>
        IF format(lastOp.V) = formats[lastOp.binding + 1]
        THEN /\ lastOp.result = "ok"
             /\ status = "live"
             /\ vertex_buffers[lastOp.binding + 1] = Some(lastOp.buf)
        ELSE /\ lastOp.result = "assertion_failed"
             /\ status = "unwinding"

\* a buffer whose record differs from the slot's only in a byte offset was refused
C1_Witness ==
    /\ LastVertexBuffer
    /\ lastOp.binding < Len(formats)
    /\ lastOp.V = "PadPos"
    /\ formats[lastOp.binding + 1] = format("Pos")
    /\ lastOp.result = "assertion_failed"

\* C2: every non-empty entry of vertex_buffers holds a buffer whose record
\* format is the registered format of that slot.
C2_AttachedBuffersMatchFormat ==
    \A i \in 1..Len(vertex_buffers) :
        vertex_buffers[i].some =>
            /\ i <= Len(formats)
            /\ format(TypeOfBuffer(vertex_buffers[i].buf)) = formats[i]

\* both slots hold buffers, one of them of a record type other than the one
\* the slot was registered with
C2_Witness ==
    /\ Len(vertex_buffers) = 2
    /\ vertex_buffers[1] = Some(2)
    /\ vertex_buffers[2].some
    /\ formats[1] = format("Pos")

\* C3: formats and vertex_buffers have the same number of entries in every
\* state, also after a set_vertex_buffer call that panicked.
C3_SlotCountsAgree == Len(formats) = Len(vertex_buffers)

\* a set_vertex_buffer call has just panicked on an object with two slots
C3_Witness ==
    /\ LastVertexBuffer
    /\ lastOp.result # "ok"
    /\ status = "unwinding"
    /\ Len(formats) = 2

RECURSIVE SumSizes(_)
SumSizes(hist) == IF hist = <<>> THEN 0 ELSE Head(hist).size + SumSizes(Tail(hist))

\* C4: after n enable_vertices calls with formats of sizes f1..fn, next_attrib
\* is f1+...+fn and there are n slots, whatever set_element_buffer and
\* set_vertex_buffer calls were interleaved; a step of any other operation
\* leaves the counter and the slot count as they were.
C4_CounterIsSumOfSizes ==
    /\ [](next_attrib = SumSizes(enabled) /\ Len(formats) = Len(enabled))
    /\ [][lastOp'.op # "enable_vertices" =>
             (next_attrib' = next_attrib /\ Len(formats') = Len(formats))]_vars

\* two formats of different sizes were enabled, and buffers were set since
C4_Witness ==
    /\ Len(enabled) = 2
    /\ enabled[1].size # enabled[2].size
    /\ LastVertexBuffer /\ lastOp.result = "ok"
    /\ element_buffer.some
    /\ next_attrib = 3

IsEnableCall(c) == c.f = "EnableVertexArrayAttrib"

IsFormatCall(c) == c.f = "VertexArrayAttribFormat"

\* C5: an enable_vertices call with a format of k attributes, started with the
\* counter at c, enables and configures exactly the locations c, c+1, ..,
\* c+k-1, the j-th attribute of the format at location c+j-1; and no location
\* is enabled or configured more than once over the whole run.
C5_ContiguousFreshLocations ==
    /\ lastOp.op = "enable_vertices" =>
          LET fmt == format(lastOp.V)
              en == SelectSeq(gl_log, IsEnableCall)
              fm == SelectSeq(gl_log, IsFormatCall)
          IN  /\ Len(en) = Len(fmt)
              /\ Len(fm) = Len(fmt)
              /\ \A j \in 1..Len(fmt) :
                    /\ en[j].a = <<handle, lastOp.c + j - 1>>
                    /\ fm[j].a = <<handle, lastOp.c + j - 1, fmt[j].size, fmt[j].typ,
                                   GL_FALSE, fmt[j].offset>>
    /\ \A loc \in DOMAIN gl_attribs :
          gl_attribs[loc].enables <= 1 /\ gl_attribs[loc].configs <= 1

\* a two-attribute format was enabled after locations were already taken
C5_Witness ==
    /\ lastOp.op = "enable_vertices"
    /\ lastOp.V = "PosCol"
    /\ lastOp.c > 0
    /\ DOMAIN gl_attribs = 0..(lastOp.c + 1)

\* C6: the GPU divisor of every slot is the divisor given to the
\* enable_vertices call that created the slot, whatever the number of
\* attributes of its format, and stays so.
C6_DivisorAsRegistered ==
    \A i \in 1..Len(enabled) : BindingAt(gl_bindings, i - 1).divisor = enabled[i].divisor

\* number of places of the array object that hold buffer b
Holders(b) ==
    Cardinality({i \in 1..Len(vertex_buffers) : vertex_buffers[i] = Some(b)})
        + (IF element_buffer = Some(b) THEN 1 ELSE 0)

\* C7: after a successful set_vertex_buffer(i, B), slot i holds B and the GPU
\* binding of slot i is B's handle; a buffer A held by slot i before is no
\* longer referenced through slot i (its strong count is the allocator's
\* reference plus the other places that still hold it).
C7_RebindReplaces ==
    (LastVertexBuffer /\ lastOp.result = "ok") =>
        /\ vertex_buffers[lastOp.binding + 1] = Some(lastOp.buf)
        /\ BindingAt(gl_bindings, lastOp.binding).buffer = lastOp.buf
        /\ (lastOp.prev.some /\ lastOp.prev.buf # lastOp.buf) =>
              /\ vertex_buffers[lastOp.binding + 1] # lastOp.prev
              /\ strong[lastOp.prev.buf] = 1 + Holders(lastOp.prev.buf)

\* buffer B replaced a different buffer A in the slot
C7_Witness ==
    /\ LastVertexBuffer /\ lastOp.result = "ok"
    /\ lastOp.prev.some
    /\ lastOp.prev.buf # lastOp.buf

\* C8: set_vertex_buffer on a binding index that no enable_vertices call has
\* produced panics, for every buffer.
C8_MissingSlotPanics ==
    (LastVertexBuffer /\ lastOp.binding >= Len(formats)) =>
        /\ lastOp.result = "index_out_of_bounds"
        /\ status = "unwinding"

\* the call was made on the freshly created object, which has no slot
C8_Witness ==
    /\ LastVertexBuffer
    /\ Len(formats) = 0
    /\ lastOp.binding = 0
    /\ lastOp.result = "index_out_of_bounds"

\* C9: DeleteVertexArrays is called on the object's handle at most once, it
\* has been called exactly once when the object has been dropped and not
\* before, no other name is ever deleted, and a panic of set_vertex_buffer
\* leads to the drop and with it to the one release.
C9_ReleasedExactlyOnce ==
    /\ [](/\ gl_deleted[handle] <= 1
          /\ (status = "dropped" <=> gl_deleted[handle] = 1)
          /\ \A n \in VaoNames \ {handle} : gl_deleted[n] = 0)
    /\ ((status = "unwinding") ~> (status = "dropped" /\ gl_deleted[handle] = 1))

\* the object was dropped by the unwinding of a failed set_vertex_buffer
C9_Witness ==
    /\ status = "dropped"
    /\ lastOp.op = "drop"
    /\ lastOp.result = "assertion_failed"
    /\ gl_deleted[handle] = 1

\* C10: on a command buffer of either variant, after n pushes len() is n and
\* the i-th record of the block behind indirect() is the argument list of the
\* i-th push, in the declared field order; a push keeps every earlier record.
C10_PushAppendsInFieldOrder ==
    /\ [](cb.exists =>
            /\ len = Len(pushed)
            /\ \A i \in 1..Len(pushed) : indirect[i] = pushed[i])
    /\ [][lastOp'.op = "push" =>
            /\ Len(cb'.cmds) = Len(cb.cmds) + 1
            /\ \A i \in 1..Len(cb.cmds) : cb'.cmds[i] = cb.cmds[i]]_vars

\* the indexed commands (10,1,0,0,0) and (20,2,5,3,1) were pushed, in this order
C10_Witness ==
    /\ cb.exists /\ cb.variant = "elements"
    /\ len = 2
    /\ pushed = << <<10, 1, 0, 0, 0>>, <<20, 2, 5, 3, 1>> >>
    /\ indirect = << <<10, 1, 0, 0, 0>>, <<20, 2, 5, 3, 1>> >>

LastElementBuffer == lastOp.op = "element_buffer"

\* C11: set_element_buffer can be called with every buffer in every state of
\* a live object, whatever its slots, and returns; after it element_buffer is
\* that buffer, whatever it held before, and formats, next_attrib and
\* vertex_buffers are as they were.
C11_ElementBufferReplaces ==
    /\ [](status = "live" => \A A \in ElementAllocators : ENABLED set_element_buffer(A))
    /\ [][lastOp'.op = "element_buffer" =>
            /\ lastOp'.result = "ok" /\ status' = "live"
            /\ element_buffer' = Some(lastOp'.buf)
            /\ lastOp'.prev = element_buffer
            /\ UNCHANGED <<formats, next_attrib, vertex_buffers>>]_vars

\* an element buffer replaced a different one, on an object with two slots
\* of which one holds a vertex buffer
C11_Witness ==
    /\ LastElementBuffer
    /\ lastOp.prev.some /\ lastOp.prev.buf # lastOp.buf
    /\ element_buffer = Some(lastOp.buf)
    /\ Len(formats) = 2
    /\ vertex_buffers[1].some

\* C12: formats is append-only: no step makes it shorter or changes an entry
\* it already has, and an enable_vertices call adds exactly one entry, the
\* format of its record type, behind the others.
C12_FormatsAppendOnly ==
    [][/\ Len(formats') >= Len(formats)
       /\ \A i \in 1..Len(formats) : formats'[i] = formats[i]
       /\ lastOp'.op = "enable_vertices" =>
             /\ Len(formats') = Len(formats) + 1
             /\ formats'[Len(formats')] = format(lastOp'.V)]_vars

\* a second, different format was registered behind the first, and a buffer
\* was then attached to the first slot
C12_Witness ==
    /\ Len(formats) = 2
    /\ formats[1] = format("PosCol")
    /\ formats[2] = format("Pos")
    /\ LastVertexBuffer /\ lastOp.result = "ok" /\ lastOp.binding = 0

Scalars == {U8, U32, F32}

CoreTypes ==
    Scalars \cup {VectorN(S, D) : S \in Scalars, D \in 1..MaxDim}
            \cup {Quaternion(S) : S \in Scalars}

RECURSIVE Wrapped(_)
Wrapped(n) == IF n = 0 THEN CoreTypes ELSE {Unit(T) : T \in Wrapped(n - 1)}

SupportedTypes == UNION {Wrapped(n) : n \in 0..MaxNest}

\* the table of section 4.1
ScalarTag(S) ==
    CASE S = U8 -> GL_UNSIGNED_BYTE
      [] S = U32 -> GL_UNSIGNED_INT
      [] S = F32 -> GL_FLOAT

RECURSIVE Unwrapped(_)
Unwrapped(T) == IF T.k = "Unit" THEN Unwrapped(T.of[1]) ELSE T

Documented(T) ==
    LET C == Unwrapped(T)
    IN  CASE C \in Scalars -> <<1, ScalarTag(C)>>
          [] C.k = "VectorN" -> <<C.d, ScalarTag(C.of[1])>>
          [] C.k = "Quaternion" -> <<4, ScalarTag(C.of[1])>>

\* C14: the registry gives every supported type the documented pair (a scalar:
\* 1 and its own tag; a vector: its dimension and its scalar's tag; a rotation
\* value: 4 and its scalar's tag), Unit<T> has the pair of T at every nesting
\* depth, and these are the pairs of the attributes enable_vertices registers
\* and configures on the GPU.
C14_RegistryMatchesTable ==
    /\ \A T \in SupportedTypes :
          /\ glformat(T) = Documented(T)
          /\ glformat(Unit(T)) = glformat(T)
    /\ \A s \in 1..Len(formats) : \A i \in 1..Len(formats[s]) :
          <<formats[s][i].size, formats[s][i].typ>>
              = Documented(Layout(enabled[s].V).fields[i].ty)
    /\ \A loc \in DOMAIN gl_attribs :
          \E s \in 1..Len(formats) : \E i \in 1..Len(formats[s]) :
              <<gl_attribs[loc].size, gl_attribs[loc].typ>>
                  = Documented(Layout(enabled[s].V).fields[i].ty)

\* a rotation value and a normalized rotation value were registered: both are
\* configured as four floats
C14_Witness ==
    /\ Len(formats) >= 1
    /\ enabled[1].V = "Rot"
    /\ gl_attribs[0].size = 4 /\ gl_attribs[0].typ = GL_FLOAT
    /\ gl_attribs[1].size = 4 /\ gl_attribs[1].typ = GL_FLOAT

IsDivisorCall(c) == c.f = "VertexArrayBindingDivisor"

IsBindingCall(c) == c.f = "VertexArrayAttribBinding"

\* C15: an enable_vertices call issues one attribute configuration per
\* attribute of the format and exactly one binding-divisor call, whatever the
\* number of attributes.
C15_OneDivisorCallPerSlot ==
    lastOp.op = "enable_vertices" =>
        /\ Len(SelectSeq(gl_log, IsFormatCall)) = Len(format(lastOp.V))
        /\ Len(SelectSeq(gl_log, IsDivisorCall)) = 1

\* C16: every attribute an enable_vertices call configures is bound to the
\* binding index s that formats had as its length when the call started; s is
\* where the call stores its format and the empty vertex_buffers entry; and in
\* every state each enabled attribute location is bound to an existing slot
\* whose registered format has an attribute with that location's
\* configuration.
C16_AttributesBoundToNewSlot ==
    /\ lastOp.op = "enable_vertices" =>
          LET s == Len(formats) - 1
              bc == SelectSeq(gl_log, IsBindingCall)
          IN  /\ Len(bc) = Len(format(lastOp.V))
              /\ \A j \in 1..Len(bc) : bc[j].a = <<handle, lastOp.c + j - 1, s>>
              /\ formats[s + 1] = format(lastOp.V)
              /\ Len(vertex_buffers) = s + 1
              /\ vertex_buffers[s + 1] = None
    /\ \A loc \in DOMAIN gl_attribs :
          gl_attribs[loc].enabled =>
              LET s == gl_attribs[loc].binding
              IN  /\ s < Len(formats)
                  /\ \E j \in 1..Len(formats[s + 1]) :
                        formats[s + 1][j] = [offset |-> gl_attribs[loc].offset,
                                             size |-> gl_attribs[loc].size,
                                             typ |-> gl_attribs[loc].typ]

\* the second call registered two attributes: locations 1 and 2 are bound to
\* binding index 1
C16_Witness ==
    /\ lastOp.op = "enable_vertices"
    /\ lastOp.V = "PosCol"
    /\ lastOp.c = 1
    /\ Len(formats) = 2
    /\ gl_attribs[1].binding = 1 /\ gl_attribs[2].binding = 1
    /\ gl_attribs[0].binding = 0

\* C17: creating a command buffer and pushing commands to it changes nothing
\* of the array object (fields, buffer reference counts, GPU state) and issues
\* no GPU call; vao() is the array object given at creation, after any
\* number of pushes and whatever is done to the array object meanwhile.
C17_CommandBufferOnlyReferences ==
    /\ [][lastOp'.op \in {"cb_new", "push"} =>
            /\ UNCHANGED <<vaoVars, strong, glVars>>
            /\ gl_log' = <<>>]_vars
    /\ [](cb.exists => vao = handle)
    /\ [][(cb.exists /\ cb'.exists) => cb'.vao = cb.vao]_vars

\* two commands were pushed on a buffer over an array object that has a slot
\* with a vertex buffer and an element buffer
C17_Witness ==
    /\ cb.exists /\ len = 2
    /\ lastOp.op = "push"
    /\ Len(formats) = 1
    /\ vertex_buffers[1].some
    /\ element_buffer.some
    /\ vao = handle

\* C18: a set_vertex_buffer call that panics (format mismatch or missing
\* slot) has issued no GPU call and has left formats, next_attrib,
\* element_buffer, every vertex_buffers entry, the reference counts and the
\* GPU state as they were.
C18_FailedCallChangesNothing ==
    [][(lastOp'.op = "vertex_buffer" /\ lastOp'.result # "ok") =>
          /\ gl_log' = <<>>
          /\ UNCHANGED <<formats, next_attrib, element_buffer, vertex_buffers, strong,
                         gl_attribs, gl_bindings, gl_element>>]_vars

\* a buffer of another format was refused by a slot that holds a buffer, on
\* an object that holds an element buffer
C18_Witness ==
    /\ LastVertexBuffer
    /\ lastOp.result = "assertion_failed"
    /\ vertex_buffers[lastOp.binding + 1].some
    /\ BindingAt(gl_bindings, lastOp.binding).buffer = vertex_buffers[lastOp.binding + 1].buf
    /\ element_buffer.some

\* C19: a successful set_vertex_buffer(i, buffer) writes vertex_buffers[i] and
\* the vertex buffer bound to binding index i, and nothing else: the other
\* entries and the other bindings, the divisor of binding i, formats,
\* next_attrib, element_buffer, the attribute state and the GPU element buffer
\* are as before.
C19_SuccessTouchesOneSlot ==
    [][(lastOp'.op = "vertex_buffer" /\ lastOp'.result = "ok") =>
          LET i == lastOp'.binding
          IN  /\ Len(vertex_buffers') = Len(vertex_buffers)
              /\ \A j \in 1..Len(vertex_buffers) :
                    j # i + 1 => vertex_buffers'[j] = vertex_buffers[j]
              /\ \A j \in ((DOMAIN gl_bindings) \cup (DOMAIN gl_bindings')) \ {i} :
                    BindingAt(gl_bindings', j) = BindingAt(gl_bindings, j)
              /\ BindingAt(gl_bindings', i).divisor = BindingAt(gl_bindings, i).divisor
              /\ UNCHANGED <<formats, next_attrib, element_buffer, gl_attribs, gl_element>>]_vars

\* a buffer was attached to the second slot while the first slot holds a
\* different buffer and the object holds an element buffer
C19_Witness ==
    /\ LastVertexBuffer /\ lastOp.result = "ok"
    /\ lastOp.binding = 1
    /\ vertex_buffers[1].some
    /\ vertex_buffers[1] # vertex_buffers[2]
    /\ element_buffer.some

\* C20: the host tables mirror the GPU bindings: vertex_buffers[i] is empty
\* exactly when no vertex buffer was ever bound to binding index i, and
\* otherwise holds the buffer of the last such binding, made with offset 0 and
\* the byte size of the buffer's record type as stride; no vertex buffer is
\* bound to an index without a slot; element_buffer is empty exactly when no
\* element buffer was bound and otherwise holds the one bound last.
C20_HostMirrorsGpu ==
    /\ \A i \in 0..(Len(vertex_buffers) - 1) :
          LET b == BindingAt(gl_bindings, i)
          IN  /\ vertex_buffers[i + 1].some <=> b.bound
              /\ b.bound =>
                    /\ vertex_buffers[i + 1].buf = b.buffer
                    /\ b.offset = 0
                    /\ b.stride = size_of(TypeOfBuffer(b.buffer))
    /\ \A i \in DOMAIN gl_bindings : gl_bindings[i].bound => i < Len(vertex_buffers)
    /\ element_buffer.some <=> gl_element # 0
    /\ element_buffer.some => element_buffer.buf = gl_element

\* both slots hold buffers, one of a record type other than the slot's, and
\* the element buffer was replaced by another
C20_Witness ==
    /\ Len(vertex_buffers) = 2
    /\ vertex_buffers[1] = Some(2) /\ BindingAt(gl_bindings, 0).buffer = 2
    /\ vertex_buffers[2] = Some(1) /\ BindingAt(gl_bindings, 1).buffer = 1
    /\ LastElementBuffer /\ lastOp.prev.some /\ lastOp.prev.buf # lastOp.buf
    /\ gl_element = lastOp.buf

====
